---- MODULE Spec2Model ----
(***************************************************************************)
(* Semantic-version parser and comparator.                                 *)
(*   src/task_2.py : VersionChecker (validating descriptor) and Version    *)
(*                   (convert_version, __eq__, __lt__)                     *)
(*   src/utils.py  : VersionDescriptor (is_valid,                          *)
(*                   create_comparable_version, __set__)                   *)
(*   src/main.py   : Version.__eq__/__lt__, the same comparison as         *)
(*                   task_2.py with 3 written MIN_VERSION_LENGTH; it       *)
(*                   imports is_valid, create_comparable_version and       *)
(*                   MIN_VERSION_LENGTH as module-level names, which       *)
(*                   src/utils.py does not define, so its comparison is    *)
(*                   never run on the unpadded sequences of utils.py       *)
(* A Python str is a sequence of one-character strings; a token of a       *)
(* comparable version is a record [isint, n, s]: int n, or str s.          *)
(***************************************************************************)
EXTENDS Integers, Sequences, FiniteSets, TLC

----------------------------------------------------------------------------
(* Characters *)

\* The characters of the model in code-point order.
CharOrder ==
    << "+", "-", ".", "0", "1", "2", "3", "4", "5", "6", "7", "8", "9",
       "A", "B", "_", "a", "b", "c", "e", "h", "l", "p", "r", "s", "t", "x" >>

Chars == { CharOrder[i] : i \in 1..Len(CharOrder) }

\* ord(c): position in code-point order (order-isomorphic to Python's ord).
ord(c) == CHOOSE i \in 1..Len(CharOrder) : CharOrder[i] = c

DigitChars == { "0", "1", "2", "3", "4", "5", "6", "7", "8", "9" }

\* \w of the re module: letters, digits and underscore.
WordChars == Chars \ { "+", "-", "." }

DigitValue(c) == ord(c) - ord("0")

\* str.lower() on one character.
lower_char(c) == CASE c = "A" -> "a" [] c = "B" -> "b" [] OTHER -> c

lower(s) == [ i \in 1..Len(s) |-> lower_char(s[i]) ]

\* str.isdigit(): non-empty and every character a digit.
isdigit(s) == Len(s) > 0 /\ \A i \in 1..Len(s) : s[i] \in DigitChars

\* int(s) for a string of decimal digits.
RECURSIVE int(_)
int(s) ==
    IF Len(s) = 0 THEN 0
    ELSE 10 * int(SubSeq(s, 1, Len(s) - 1)) + DigitValue(s[Len(s)])

\* Python's < on two str values: lexicographic by code point.
RECURSIVE str_lt(_, _)
str_lt(s, t) ==
    IF Len(t) = 0 THEN FALSE
    ELSE IF Len(s) = 0 THEN TRUE
    ELSE IF s[1] # t[1] THEN ord(s[1]) < ord(t[1])
    ELSE str_lt(Tail(s), Tail(t))

----------------------------------------------------------------------------
(* Regular-expression matching.  A position p \in 1..Len(s)+1 is the index *)
(* of the next character to read; each operator maps a set of start        *)
(* positions to the set of positions at which the sub-pattern can end.     *)

\* \d+
re_digits(s, P) ==
    { q \in 1..Len(s) + 1 :
        \E p \in P : p < q /\ \A k \in p..(q - 1) : s[k] \in DigitChars }

\* \w+
re_words(s, P) ==
    { q \in 1..Len(s) + 1 :
        \E p \in P : p < q /\ \A k \in p..(q - 1) : s[k] \in WordChars }

\* a literal word w
re_lit(s, P, w) ==
    { p + Len(w) : p \in { r \in P : r + Len(w) - 1 <= Len(s)
                                    /\ SubSeq(s, r, r + Len(w) - 1) = w } }

\* [C]? : an optional character of the class C
re_opt(s, P, C) ==
    P \cup { p + 1 : p \in { r \in P : r <= Len(s) /\ s[r] \in C } }

\* (\d+\.){,2}\d+
re_core(s) ==
    LET G0 == { 1 }
        G1 == re_lit(s, re_digits(s, G0), << "." >>)
        G2 == re_lit(s, re_digits(s, G1), << "." >>)
    IN  re_digits(s, G0 \cup G1 \cup G2)

\* The pre-release words of the pattern; sr only in task_2.py.
IdentsUtils == { << "a" >>, << "b" >>, << "a", "l", "p", "h", "a" >>,
                 << "b", "e", "t", "a" >>, << "r", "c" >> }

IdentsTask2 == IdentsUtils \cup { << "s", "r" >> }

\* -?(\d+|a|b|alpha|beta|rc[|sr])[.-]?
re_segment(s, P, idents) ==
    LET A == re_opt(s, P, { "-" })
        I == re_digits(s, A) \cup UNION { re_lit(s, A, w) : w \in idents }
    IN  re_opt(s, I, { ".", "-" })

\* ( ... )* over re_segment
RECURSIVE re_segments(_, _, _)
re_segments(s, P, idents) ==
    LET N == P \cup re_segment(s, P, idents)
    IN  IF N = P THEN P ELSE re_segments(s, N, idents)

\* \w+[.-]?
re_metagroup(s, P) == re_opt(s, re_words(s, P), { ".", "-" })

RECURSIVE re_metagroups(_, _)
re_metagroups(s, P) ==
    LET N == P \cup re_metagroup(s, P)
    IN  IF N = P THEN P ELSE re_metagroups(s, N)

\* (\+(\w+[.-]?)+)?
re_metadata(s, P) ==
    P \cup re_metagroups(s, re_metagroup(s, re_lit(s, P, << "+" >>)))

\* re.fullmatch of the version pattern.
fullmatch(s, idents) ==
    (Len(s) + 1) \in re_metadata(s, re_segments(s, re_core(s), idents))

----------------------------------------------------------------------------
(* Validation *)

NOT_IMPLEMENTED_INVALID_VERSIONS ==
    { << "0", ".", "0", ".", "0" >>, << "0", ".", "0" >>, << "0" >> }

\* utils.py: TRUE, or ValueError (FALSE here).
is_valid(version) ==
    fullmatch(version, IdentsUtils)
        /\ version \notin NOT_IMPLEMENTED_INVALID_VERSIONS

\* task_2.py: the condition of VersionChecker.__set__.
VersionChecker_accepts(value) ==
    fullmatch(value, IdentsTask2) /\ value # << "0", ".", "0", ".", "0" >>

----------------------------------------------------------------------------
(* Normalisation *)

\* s.replace(old, new) / re.sub of a literal: leftmost, non-overlapping.
RECURSIVE replace(_, _, _)
replace(s, old, new) ==
    IF Len(s) < Len(old) THEN s
    ELSE IF SubSeq(s, 1, Len(old)) = old
         THEN new \o replace(SubSeq(s, Len(old) + 1, Len(s)), old, new)
         ELSE << s[1] >> \o replace(Tail(s), old, new)

\* Index of the first "+" of s, 0 if there is none (str.find, 1-based).
find_plus(s) ==
    IF \E i \in 1..Len(s) : s[i] = "+"
    THEN CHOOSE i \in 1..Len(s) : s[i] = "+" /\ \A j \in 1..(i - 1) : s[j] # "+"
    ELSE 0

\* sub_metadata with the pattern r'\+' in place of r'\+.+': only the sign
\* is dropped.
sub_metadata_sign_only(s) == replace(s, << "+" >>, << >>)

\* re.sub(r'\+.+', '', s): the first "+" that has a character after it,
\* and everything up to the end of the string (no newline in Chars).
sub_metadata(s) ==
    LET i == find_plus(s)
    IN  IF i = 0 \/ i = Len(s) THEN s ELSE SubSeq(s, 1, i - 1)

\* s.split('.'): every "." separates, empty strings included.
RECURSIVE split_dot(_)
split_dot(s) ==
    IF \E i \in 1..Len(s) : s[i] = "."
    THEN LET i == CHOOSE k \in 1..Len(s) :
                     s[k] = "." /\ \A j \in 1..(k - 1) : s[j] # "."
         IN  << SubSeq(s, 1, i - 1) >> \o split_dot(SubSeq(s, i + 1, Len(s)))
    ELSE << s >>

\* re.split(r'\.+', s): every maximal run of "." separates.
RECURSIVE split_dots(_)
split_dots(s) ==
    IF \E i \in 1..Len(s) : s[i] = "."
    THEN LET i == CHOOSE k \in 1..Len(s) :
                     s[k] = "." /\ \A j \in 1..(k - 1) : s[j] # "."
             e == CHOOSE k \in i..Len(s) :
                     /\ \A j \in i..k : s[j] = "."
                     /\ (k = Len(s) \/ s[k + 1] # ".")
         IN  << SubSeq(s, 1, i - 1) >> \o split_dots(SubSeq(s, e + 1, Len(s)))
    ELSE << s >>

IntTok(k) == [ isint |-> TRUE, n |-> k, s |-> << >> ]

StrTok(w) == [ isint |-> FALSE, n |-> 0, s |-> w ]

\* lambda x: int(x) if x.isdigit() else x.lower()
to_token(x) == IF isdigit(x) THEN IntTok(int(x)) ELSE StrTok(lower(x))

MIN_VERSION_LENGTH == 3

\* while len(version) < 3: version.append('0')
RECURSIVE pad(_)
pad(toks) ==
    IF Len(toks) < MIN_VERSION_LENGTH THEN pad(Append(toks, << "0" >>))
    ELSE toks

\* convert_version without the padding loop.
convert_version_unpadded(version) ==
    LET r1 == replace(version, << "a", "l", "p", "h", "a" >>, << "a" >>)
        r2 == replace(r1, << "b", "e", "t", "a" >>, << "b" >>)
        r3 == replace(r2, << "a" >>, << ".", "a" >>)
        r4 == replace(r3, << "b" >>, << ".", "b" >>)
        r5 == replace(r4, << "-" >>, << "." >>)
        r6 == sub_metadata(r5)
        toks == split_dots(r6)
    IN  [ i \in 1..Len(toks) |-> to_token(toks[i]) ]

\* task_2.py Version.convert_version
convert_version(version) ==
    LET r1 == replace(version, << "a", "l", "p", "h", "a" >>, << "a" >>)
        r2 == replace(r1, << "b", "e", "t", "a" >>, << "b" >>)
        r3 == replace(r2, << "a" >>, << ".", "a" >>)
        r4 == replace(r3, << "b" >>, << ".", "b" >>)
        r5 == replace(r4, << "-" >>, << "." >>)
        r6 == sub_metadata(r5)
        toks == pad(split_dots(r6))
    IN  [ i \in 1..Len(toks) |-> to_token(toks[i]) ]

\* utils.py VersionDescriptor.create_comparable_version
create_comparable_version(version) ==
    LET c0 == IF find_plus(version) = 0 THEN version
              ELSE SubSeq(version, 1, find_plus(version) - 1)
        r1 == replace(c0, << "a", "l", "p", "h", "a" >>, << "a" >>)
        r2 == replace(r1, << "b", "e", "t", "a" >>, << "b" >>)
        r3 == replace(r2, << "a" >>, << ".", "a" >>)
        r4 == replace(r3, << "b" >>, << ".", "b" >>)
        r5 == replace(r4, << "-" >>, << "." >>)
        r6 == replace(r5, << ".", "." >>, << "." >>)
        toks == split_dot(r6)
    IN  [ i \in 1..Len(toks) |-> to_token(toks[i]) ]

----------------------------------------------------------------------------
(* Comparison *)

\* str(n) for n >= 0.
RECURSIVE str(_)
str(n) ==
    IF n < 10 THEN << CharOrder[ord("0") + n] >>
    ELSE str(n \div 10) \o << CharOrder[ord("0") + (n % 10)] >>

\* tok_lt on tokens that were never converted to int: digit strings
\* compare as text.
tok_lt_as_text(x, y) ==
    IF x.isint THEN str_lt(str(x.n), str(y.n)) ELSE str_lt(x.s, y.s)

\* x < y on two tokens of the same type.
tok_lt(x, y) == IF x.isint THEN x.n < y.n ELSE str_lt(x.s, y.s)

Min(a, b) == IF a <= b THEN a ELSE b

\* lt_from without the length rules after the loop (return False).
RECURSIVE lt_from_no_length_rule(_, _, _)
lt_from_no_length_rule(a, b, i) ==
    IF i >= Min(Len(a), Len(b)) THEN FALSE
    ELSE LET x == a[i + 1]
             y == b[i + 1]
         IN  IF x = y THEN lt_from_no_length_rule(a, b, i + 1)
             ELSE IF x.isint = y.isint THEN tok_lt(x, y)
             ELSE IF i <= MIN_VERSION_LENGTH THEN ~x.isint
             ELSE x.isint

\* lt_from with i < 3 in place of i <= 3 in the except branch.
RECURSIVE lt_from_strict_index(_, _, _)
lt_from_strict_index(a, b, i) ==
    IF i >= Min(Len(a), Len(b))
    THEN IF MIN_VERSION_LENGTH \in { Len(a), Len(b) }
         THEN Len(a) > MIN_VERSION_LENGTH
         ELSE Len(a) < Len(b)
    ELSE LET x == a[i + 1]
             y == b[i + 1]
         IN  IF x = y THEN lt_from_strict_index(a, b, i + 1)
             ELSE IF x.isint = y.isint THEN tok_lt(x, y)
             ELSE IF i < MIN_VERSION_LENGTH THEN ~x.isint
             ELSE x.isint

\* lt_from with the last comparison of lengths turned round.
RECURSIVE lt_from_longer_less(_, _, _)
lt_from_longer_less(a, b, i) ==
    IF i >= Min(Len(a), Len(b))
    THEN IF MIN_VERSION_LENGTH \in { Len(a), Len(b) }
         THEN Len(a) > MIN_VERSION_LENGTH
         ELSE Len(a) > Len(b)
    ELSE LET x == a[i + 1]
             y == b[i + 1]
         IN  IF x = y THEN lt_from_longer_less(a, b, i + 1)
             ELSE IF x.isint = y.isint THEN tok_lt(x, y)
             ELSE IF i <= MIN_VERSION_LENGTH THEN ~x.isint
             ELSE x.isint

\* The loop of Version.__lt__ from index i (0-based, as enumerate counts).
RECURSIVE lt_from(_, _, _)
lt_from(a, b, i) ==
    IF i >= Min(Len(a), Len(b))
    THEN IF MIN_VERSION_LENGTH \in { Len(a), Len(b) }
         THEN Len(a) > MIN_VERSION_LENGTH
         ELSE Len(a) < Len(b)
    ELSE LET x == a[i + 1]
             y == b[i + 1]
         IN  IF x = y THEN lt_from(a, b, i + 1)
             ELSE IF x.isint = y.isint THEN tok_lt(x, y)
             ELSE IF i <= MIN_VERSION_LENGTH THEN ~x.isint
             ELSE x.isint

\* Version.__lt__ on the two comparable versions.
lt(a, b) == lt_from(a, b, 0)

\* Version.__eq__ on the two comparable versions.
eq(a, b) == a = b

----------------------------------------------------------------------------
(* Input strings *)

S1 == << "1" >>
S0 == << "0" >>
S00 == << "0", ".", "0" >>
S000 == << "0", ".", "0", ".", "0" >>
S100 == << "1", ".", "0", ".", "0" >>

\* Strings offered to the constructor and to attribute assignment.
LifeInputs ==
    { S0, S00, S000, << >>, << "a", "b", "c" >>, S100,
      << "2", ".", "0", "-", "r", "c" >>, << "1", "-", "s", "r" >>,
      << "1", ".", "2", ".", "3", ".", "4" >> }

\* All concatenations of at most k elements of segs.
RECURSIVE Chains(_, _)
Chains(segs, k) ==
    IF k = 0 THEN { << >> }
    ELSE LET C == Chains(segs, k - 1)
         IN  C \cup { c \o g : c \in C, g \in segs }

\* A version string in parts: numeric core, pre-release segment, metadata.
Parts(cores, pres, metas) ==
    { [ core |-> c, pre |-> p, meta |-> m ] : c \in cores, p \in pres, m \in metas }

raw(v) == v.core \o v.pre \o v.meta

Cores == { S1, S100 }

Segs == { << "-", "2" >>, << "-", "1", "1" >>, << "-", "r", "c" >>, << "a" >> }

Metas == { << >>, << "+", "b", "e", "t", "a", ".", "a", "-", "1" >> }

\* Longest pre-release chain of the compared pairs.
MaxPre == 2

\* Ill-formed and sentinel strings among the compared ones.
Rejected == Parts({ S000, << "1", "." >> }, { << >> }, { << >> })

CmpInputs == Parts(Cores, Chains(Segs, MaxPre), Metas) \cup Rejected

TransSegs == { << "-", "2" >>, << "-", "r", "c" >> }

\* Longest pre-release chain of the compared triples.
MaxPreT == 2

TransInputs == Parts(Cores, Chains(TransSegs, MaxPreT), { << >> }) \cup Rejected

----------------------------------------------------------------------------
(* State *)

VARIABLES
    objs,      \* the Version objects: class, _version, comparable form
    outcome,   \* what the last constructor, assignment or comparison did
    args,      \* the version strings the test loop was given
    pc,        \* position in the test loop
    result     \* the comparisons the test loop evaluated

vars == << objs, outcome, args, pc, result >>

ObjIds == { 1, 2, 3 }

\* The state: objs holds each instance's class, _version and
\* comparable_version; pc and result belong to the test loop.
TypeOK ==
    /\ DOMAIN objs = ObjIds
    /\ \A i \in ObjIds :
           /\ objs[i].cls \in { "none", "task_2", "utils" }
           /\ \A k \in 1..Len(objs[i].version) : objs[i].version[k] \in Chars
           /\ \A k \in 1..Len(objs[i].comparable_version) :
                  objs[i].comparable_version[k].isint \in BOOLEAN
    /\ outcome.op \in { "none", "init", "set", "lt", "eq" }
    /\ outcome.res \in { "none", "ok", "ValueError", "TypeError", "True", "False" }
    /\ args.cls \in { "none", "task_2", "utils" }
    /\ pc \in { "life", "construct", "compare", "done", "ValueError" }
    /\ DOMAIN result = { "lt", "eq" }

Classes == { "task_2", "utils" }

NoObj == [ cls |-> "none", version |-> << >>, comparable_version |-> << >> ]

NoOutcome ==
    [ op |-> "none", cls |-> "none", id |-> 0, other |-> 0, arg |-> << >>,
      res |-> "none" ]

NoResult == [ lt |-> << >>, eq |-> << >> ]

NoArgs == [ cls |-> "none", v |-> << >> ]

\* The descriptor's condition for storing a value.
accepts(cls, value) ==
    IF cls = "task_2" THEN VersionChecker_accepts(value) ELSE is_valid(value)

normalize(cls, value) ==
    IF cls = "task_2" THEN convert_version(value)
    ELSE create_comparable_version(value)

\* Version(version): task_2.py stores the string through VersionChecker and
\* then the converted form; with utils.py's VersionDescriptor the assignment
\* stores both.  A refused string raises ValueError out of the constructor.
Version(cls, version) ==
    [ cls |-> cls, version |-> version,
      comparable_version |-> normalize(cls, version) ]

\* obj.version = value
set_version(obj, value) ==
    IF obj.cls = "task_2"
    THEN [ obj EXCEPT !.version = value ]
    ELSE [ obj EXCEPT !.version = value,
                      !.comparable_version = create_comparable_version(value) ]

----------------------------------------------------------------------------
(* Life of a Version object *)

Init ==
    /\ objs = [ i \in ObjIds |-> NoObj ]
    /\ outcome = NoOutcome
    /\ args = NoArgs
    /\ pc = "life"
    /\ result = NoResult

LifeIds == { 1, 2 }

New(id, cls, s) ==
    /\ pc = "life"
    /\ objs[id] = NoObj
    /\ IF accepts(cls, s)
       THEN /\ objs' = [ objs EXCEPT ![id] = Version(cls, s) ]
            /\ outcome' = [ op |-> "init", cls |-> cls, id |-> id, other |-> 0,
                            arg |-> s, res |-> "ok" ]
       ELSE /\ objs' = objs
            /\ outcome' = [ op |-> "init", cls |-> cls, id |-> id, other |-> 0,
                            arg |-> s, res |-> "ValueError" ]
    /\ UNCHANGED << args, pc, result >>

SetVersion(id, s) ==
    /\ pc = "life"
    /\ objs[id] # NoObj
    /\ IF accepts(objs[id].cls, s)
       THEN /\ objs' = [ objs EXCEPT ![id] = set_version(objs[id], s) ]
            /\ outcome' = [ op |-> "set", cls |-> objs[id].cls, id |-> id,
                            other |-> 0, arg |-> s, res |-> "ok" ]
       ELSE /\ objs' = objs
            /\ outcome' = [ op |-> "set", cls |-> objs[id].cls, id |-> id,
                            other |-> 0, arg |-> s, res |-> "ValueError" ]
    /\ UNCHANGED << args, pc, result >>

Bool(b) == IF b THEN "True" ELSE "False"

\* Version.is_version(other): only an instance of task_2's Version passes.
is_version(other) == other.cls = "task_2"

Lt(i, j) ==
    /\ pc = "life"
    /\ objs[i].cls = "task_2"
    /\ objs[j] # NoObj
    /\ outcome' = [ op |-> "lt", cls |-> "task_2", id |-> i, other |-> j,
                    arg |-> << >>,
                    res |-> IF is_version(objs[j])
                            THEN Bool(lt(objs[i].comparable_version,
                                         objs[j].comparable_version))
                            ELSE "TypeError" ]
    /\ UNCHANGED << objs, args, pc, result >>

Eq(i, j) ==
    /\ pc = "life"
    /\ objs[i].cls = "task_2"
    /\ objs[j] # NoObj
    /\ outcome' = [ op |-> "eq", cls |-> "task_2", id |-> i, other |-> j,
                    arg |-> << >>,
                    res |-> IF is_version(objs[j])
                            THEN Bool(eq(objs[i].comparable_version,
                                         objs[j].comparable_version))
                            ELSE "TypeError" ]
    /\ UNCHANGED << objs, args, pc, result >>

Next ==
    \/ \E id \in LifeIds, cls \in Classes, s \in LifeInputs : New(id, cls, s)
    \/ \E id \in LifeIds, s \in LifeInputs : SetVersion(id, s)
    \/ \E i \in LifeIds, j \in LifeIds : Lt(i, j)
    \/ \E i \in LifeIds, j \in LifeIds : Eq(i, j)

Spec == Init /\ [][Next]_vars

----------------------------------------------------------------------------
(* The test loop of main(): construct a Version from each string, then     *)
(* compare them.                                                           *)

InitCmp ==
    /\ objs = [ i \in ObjIds |-> NoObj ]
    /\ outcome = NoOutcome
    /\ \E c \in Classes, v1 \in CmpInputs, v2 \in CmpInputs :
           args = [ cls |-> c, v |-> << v1, v2 >> ]
    /\ pc = "construct"
    /\ result = NoResult

InitTrans ==
    /\ objs = [ i \in ObjIds |-> NoObj ]
    /\ outcome = NoOutcome
    /\ \E v1 \in TransInputs, v2 \in TransInputs, v3 \in TransInputs :
           args = [ cls |-> "task_2", v |-> << v1, v2, v3 >> ]
    /\ pc = "construct"
    /\ result = NoResult

Ids == 1..Len(args.v)

\* Version(version_1), Version(version_2), ...: every string is accepted.
MainConstruct ==
    /\ pc = "construct"
    /\ \A i \in Ids : accepts(args.cls, raw(args.v[i]))
    /\ objs' = [ i \in ObjIds |->
                   IF i \in Ids THEN Version(args.cls, raw(args.v[i]))
                   ELSE NoObj ]
    /\ pc' = IF args.cls = "task_2" THEN "compare" ELSE "done"
    /\ UNCHANGED << outcome, args, result >>

\* One of the constructors raises ValueError: no comparison takes place.
MainReject ==
    /\ pc = "construct"
    /\ \E i \in Ids : ~accepts(args.cls, raw(args.v[i]))
    /\ pc' = "ValueError"
    /\ UNCHANGED << objs, outcome, args, result >>

\* Version(x) < Version(y) and Version(x) == Version(y) for every two of
\* the objects.
MainCompare ==
    /\ pc = "compare"
    /\ result' =
         [ lt |-> [ p \in Ids \X Ids |->
                      lt(objs[p[1]].comparable_version,
                         objs[p[2]].comparable_version) ],
           eq |-> [ p \in Ids \X Ids |->
                      eq(objs[p[1]].comparable_version,
                         objs[p[2]].comparable_version) ] ]
    /\ pc' = "done"
    /\ UNCHANGED << objs, outcome, args >>

NextMain == MainConstruct \/ MainReject \/ MainCompare

SpecCmp == InitCmp /\ [][NextMain]_vars

SpecTrans == InitTrans /\ [][NextMain]_vars

----------------------------------------------------------------------------
(* Properties *)

cv(i) == objs[i].comparable_version

Compared == pc = "done" /\ args.cls = "task_2"

\* 1-based index of the first position at which a and b differ, 0 if one
\* is a prefix of the other.
FirstDiff(a, b) ==
    LET D == { i \in 1..Min(Len(a), Len(b)) : a[i] # b[i] }
    IN  IF D = { } THEN 0 ELSE CHOOSE i \in D : \A j \in D : i <= j

StrictPrefix(a, b) == FirstDiff(a, b) = 0 /\ Len(a) < Len(b)

ExactlyOne(p, q, r) ==
    \/ p /\ ~q /\ ~r
    \/ ~p /\ q /\ ~r
    \/ ~p /\ ~q /\ r

\* C1: for every two constructed versions a and b exactly one of a < b,
\* a == b, b < a holds, each < evaluated with its left operand as receiver.
C1_Trichotomy ==
    Compared =>
        \A i \in Ids, j \in Ids :
            ExactlyOne(result.lt[<< i, j >>], result.eq[<< i, j >>],
                       result.lt[<< j, i >>])

\* A release and one of its pre-releases were compared: one sequence is a
\* strict prefix of length 3 of the other.
C1_Witness ==
    /\ Compared
    /\ StrictPrefix(cv(2), cv(1))
    /\ Len(cv(2)) = 3
    /\ result.lt[<< 1, 2 >>]
    /\ ~result.lt[<< 2, 1 >>]

\* C2: for every three constructed versions, a < b and b < c imply a < c.
C2_Transitivity ==
    Compared =>
        \A i \in Ids, j \in Ids, k \in Ids :
            result.lt[<< i, j >>] /\ result.lt[<< j, k >>]
                => result.lt[<< i, k >>]

\* a < b < c with a string and an integer at index 3 and lengths 4, 4, 3.
C2_Witness ==
    /\ Compared
    /\ Len(args.v) = 3
    /\ result.lt[<< 1, 2 >>] /\ result.lt[<< 2, 3 >>] /\ result.lt[<< 1, 3 >>]
    /\ Len(cv(1)) = 4 /\ Len(cv(2)) = 4 /\ Len(cv(3)) = 3
    /\ ~cv(1)[4].isint /\ cv(2)[4].isint

Sentinels == { S0, S00, S000 }

Grammar(cls, s) ==
    fullmatch(s, IF cls = "task_2" THEN IdentsTask2 ELSE IdentsUtils)

\* C3: the constructor raises a validation error and leaves no object for
\* every string outside the grammar and for "0.0.0", "0.0" and "0".
C3_RejectsInvalid ==
    outcome.op = "init"
        /\ (outcome.arg \in Sentinels \/ ~Grammar(outcome.cls, outcome.arg))
        => outcome.res = "ValueError" /\ objs[outcome.id] = NoObj

\* Number of numeric groups of a core.
NumGroups(core) == 1 + Cardinality({ i \in 1..Len(core) : core[i] = "." })

NoPre(v) == v.pre = << >> /\ v.meta = << >>

\* C4: a core followed by a non-empty pre-release segment is less than the
\* core alone.
C4_PreReleaseBelowRelease ==
    Compared /\ Len(args.v) = 2
        /\ args.v[1].core = args.v[2].core
        /\ args.v[1].pre # << >> /\ args.v[1].meta = << >>
        /\ NoPre(args.v[2])
        => result.lt[<< 1, 2 >>]

\* C5: the comparable form has at least 3 tokens, the first three are the
\* integers of major, minor and patch, and the positions the core omits
\* hold integer 0, with or without a pre-release segment after the core.
C5_CorePositions ==
    pc \in { "compare", "done" } =>
        \A i \in Ids :
            /\ Len(cv(i)) >= 3
            /\ \A k \in 1..3 :
                   /\ cv(i)[k].isint
                   /\ k > NumGroups(args.v[i].core) => cv(i)[k] = IntTok(0)

\* C6: the stored comparable form of every object is the normalisation of
\* its stored string, whatever assignments and comparisons took place.
C6_ComparableFollowsRaw ==
    \A id \in ObjIds :
        objs[id] # NoObj =>
            objs[id].comparable_version = normalize(objs[id].cls, objs[id].version)

SameButMetadata(v, w) == v.core = w.core /\ v.pre = w.pre

\* C7: two strings that differ only in their build metadata have the same
\* comparable form; the versions are equal and neither is less.
C7_MetadataIgnored ==
    \A i \in Ids, j \in Ids :
        SameButMetadata(args.v[i], args.v[j]) =>
            /\ pc \in { "compare", "done" } => cv(i) = cv(j)
            /\ Compared =>
                   /\ result.eq[<< i, j >>]
                   /\ ~result.lt[<< i, j >>]
                   /\ ~result.lt[<< j, i >>]

\* A pre-release with and without metadata (holding beta, a, "." and "-")
\* was constructed and compared.
C7_Witness ==
    /\ Compared
    /\ SameButMetadata(args.v[1], args.v[2])
    /\ args.v[1].pre # << >>
    /\ args.v[1].meta = << >> /\ args.v[2].meta # << >>
    /\ result.eq[<< 1, 2 >>]

\* C8: when the first difference is between two integers, < is their
\* numeric order, whatever follows.
C8_NumericOrder ==
    Compared =>
        \A i \in Ids, j \in Ids :
            LET d == FirstDiff(cv(i), cv(j))
            IN  d # 0 /\ cv(i)[d].isint /\ cv(j)[d].isint
                    => result.lt[<< i, j >>] = (cv(i)[d].n < cv(j)[d].n)

\* 2 against 11: numerically less, as text greater; the lesser is longer.
C8_Witness ==
    /\ Compared
    /\ LET d == FirstDiff(cv(1), cv(2))
       IN  /\ d # 0
           /\ cv(1)[d] = IntTok(2) /\ cv(2)[d] = IntTok(11)
           /\ Len(cv(1)) > Len(cv(2))
    /\ result.lt[<< 1, 2 >>]

\* C9: when the first difference is between an integer and a string at
\* 0-based index i, the string side is less if i <= 3 and the integer
\* side is less if i > 3.
C9_MixedTypes ==
    Compared =>
        \A i \in Ids, j \in Ids :
            LET d == FirstDiff(cv(i), cv(j))
            IN  d # 0 /\ cv(i)[d].isint # cv(j)[d].isint
                    => result.lt[<< i, j >>] =
                         (IF d - 1 <= 3 THEN ~cv(i)[d].isint ELSE cv(i)[d].isint)

\* An integer against a string at index 4: the integer side is less.
C9_Witness ==
    /\ Compared
    /\ FirstDiff(cv(1), cv(2)) = 5
    /\ cv(1)[5].isint /\ ~cv(2)[5].isint
    /\ result.lt[<< 1, 2 >>] /\ ~result.lt[<< 2, 1 >>]

\* C10: when one sequence is a strict prefix of the other and neither has
\* length 3, the shorter one is less and the longer one is not.
C10_ShorterPrefixLess ==
    Compared =>
        \A i \in Ids, j \in Ids :
            StrictPrefix(cv(i), cv(j)) /\ Len(cv(i)) # 3 /\ Len(cv(j)) # 3
                => result.lt[<< i, j >>] /\ ~result.lt[<< j, i >>]

\* A pre-release chain and a longer chain that starts with it.
C10_Witness ==
    /\ Compared
    /\ StrictPrefix(cv(1), cv(2))
    /\ Len(cv(1)) = 4 /\ Len(cv(2)) = 5
    /\ result.lt[<< 1, 2 >>]

====
